---- MODULE Spec2Model ----
(***************************************************************************)
(* Model of the parsing and prompt utilities of amadeus-engine:            *)
(*   src/src/utils/parsing.ts  findCodeBlocks, findFinalAnswer             *)
(*   src/src/utils/prompts.ts  createQueryMetadata, buildRlmSystemPrompt,  *)
(*                             buildUserPrompt                             *)
(* Text is a sequence of one-character strings; the regular expressions    *)
(* are modelled by matchers that follow the backtracking order of the      *)
(* JavaScript engine.                                                      *)
(***************************************************************************)
EXTENDS Integers, Sequences, FiniteSets, TLC

VARIABLES
    pc,             \* "start" before the operation of the specification, "done" after
    text,           \* the response text of the model
    environment,    \* the execution environment handed to findFinalAnswer
    answer,         \* the result of findFinalAnswer
    marker,         \* SpecQuoted: the quote and the contents the text was built from
    segments,       \* SpecBlocks: the fenced blocks and prose the text was built from
    blocks,         \* the result of findCodeBlocks
    context,        \* the context handed to createQueryMetadata
    systemPrompt,   \* the system prompt handed to buildRlmSystemPrompt
    queryMetadata,  \* the result of createQueryMetadata
    messages,       \* the result of buildRlmSystemPrompt
    options,        \* the PromptOptions handed to buildUserPrompt
    userMessage     \* the result of buildUserPrompt

answerVars == <<text, environment, answer, marker>>
blockVars == <<segments, blocks>>
promptVars == <<context, systemPrompt, queryMetadata, messages, options, userMessage>>

vars == <<pc, answerVars, blockVars, promptVars>>

(***************************************************************************)
(* Bounds of the model.                                                    *)
(***************************************************************************)
MaxFrags == 3

----------------------------------------------------------------------------
(***************************************************************************)
(* Generic text helpers.                                                   *)
(***************************************************************************)
RECURSIVE Flatten(_)
Flatten(ss) == IF ss = <<>> THEN <<>> ELSE Head(ss) \o Flatten(Tail(ss))

\* The literal lit occurs in s starting at index i.
LitAt(s, i, lit) ==
    /\ i >= 1
    /\ i + Len(lit) - 1 <= Len(s)
    /\ \A k \in 1..Len(lit) : s[i + k - 1] = lit[k]

Min(S) == CHOOSE m \in S : \A n \in S : m <= n
Max(S) == CHOOSE m \in S : \A n \in S : m >= n

\* JavaScript's \s and String.prototype.trim whitespace, over the model's alphabet.
IsSpace(c) == c \in {" ", "\n", "\t", "\r"}

IsQuote(c) == c \in {"\"", "'"}

NoMatch == [found |-> FALSE, index |-> 0, group |-> <<>>, end |-> 0]

(***************************************************************************)
(* A match, at index i, of a regular expression of the shape               *)
(*     open ( [^stop]{min,} ) close                                        *)
(* where close begins with the character the class excludes or, as in      *)
(* [^)]+\), is that character.  The class cannot cross the first stop      *)
(* character, and a shorter group would be followed by a character of the  *)
(* class, so the only candidate group runs up to the first stop character. *)
(***************************************************************************)
DelimitedAt(s, i, open, stop, min, close) ==
    IF ~LitAt(s, i, open) THEN NoMatch
    ELSE LET p == i + Len(open)
             k == Min({j \in p..(Len(s) + 1) : j = Len(s) + 1 \/ s[j] = stop})
         IN  IF k - p >= min /\ LitAt(s, k, close)
             THEN [found |-> TRUE, index |-> i, group |-> SubSeq(s, p, k - 1),
                   end |-> k + Len(close)]
             ELSE NoMatch

\* String.prototype.match with a non-global regular expression: the leftmost match.
MatchDelimited(s, open, stop, min, close) ==
    LET hits == {i \in 1..Len(s) : DelimitedAt(s, i, open, stop, min, close).found}
    IN  IF hits = {} THEN NoMatch
        ELSE DelimitedAt(s, Min(hits), open, stop, min, close)

L_FINAL_VAR == <<"F", "I", "N", "A", "L", "_", "V", "A", "R", "(">>
L_FINAL == <<"F", "I", "N", "A", "L", "(">>
L_FINAL_DQ == L_FINAL \o <<"\"">>
L_FINAL_SQ == L_FINAL \o <<"'">>

\* /FINAL_VAR\(([^)]+)\)/
MatchFinalVar(s) == MatchDelimited(s, L_FINAL_VAR, ")", 1, <<")">>)
\* a double-quoted pattern written with + for *: an empty literal is no match
MatchDoubleQuote_NonEmpty(s) == MatchDelimited(s, L_FINAL_DQ, "\"", 1, <<"\"", ")">>)
\* /FINAL\("([^"]*)"\)/
MatchDoubleQuote(s) == MatchDelimited(s, L_FINAL_DQ, "\"", 0, <<"\"", ")">>)
\* /FINAL\('([^']*)'\)/
MatchSingleQuote(s) == MatchDelimited(s, L_FINAL_SQ, "'", 0, <<"'", ")">>)
\* a raw pattern /FINAL\((.+)\)/ that runs to the last closing parenthesis
MatchRaw_Greedy(s) ==
    LET hits == {i \in 1..Len(s) :
                   /\ LitAt(s, i, L_FINAL)
                   /\ \E k \in (i + Len(L_FINAL) + 1)..Len(s) : s[k] = ")"}
    IN  IF hits = {} THEN NoMatch
        ELSE LET i == Min(hits)
                 k == Max({j \in (i + Len(L_FINAL) + 1)..Len(s) : s[j] = ")"})
             IN  [found |-> TRUE, index |-> i,
                  group |-> SubSeq(s, i + Len(L_FINAL), k - 1), end |-> k + 1]
\* /FINAL\(([^)]+)\)/
MatchRaw(s) == MatchDelimited(s, L_FINAL, ")", 1, <<")">>)

\* String.prototype.trim
RECURSIVE TrimStart(_)
TrimStart(s) == IF s # <<>> /\ IsSpace(Head(s)) THEN TrimStart(Tail(s)) ELSE s
RECURSIVE TrimEnd(_)
TrimEnd(s) ==
    IF s # <<>> /\ IsSpace(s[Len(s)]) THEN TrimEnd(SubSeq(s, 1, Len(s) - 1)) ELSE s
Trim(s) == TrimEnd(TrimStart(s))

\* .replace(/^["']|["']$/g, ""): one quote character removed at the start, if there
\* is one, and one at the end of what is left, if there is one.
StripQuotes(s) ==
    LET a == IF s # <<>> /\ IsQuote(Head(s)) THEN Tail(s) ELSE s
    IN  IF a # <<>> /\ IsQuote(a[Len(a)]) THEN SubSeq(a, 1, Len(a) - 1) ELSE a

VarName(arg) == StripQuotes(Trim(arg))

----------------------------------------------------------------------------
(***************************************************************************)
(* Values of the environment and of a context, and JSON.stringify.         *)
(***************************************************************************)
StrV(s) == [t |-> "string", v |-> s]
NumV(n) == [t |-> "number", v |-> n]
BoolV(b) == [t |-> "boolean", v |-> b]
NullV == [t |-> "null", v |-> 0]
ArrV(xs) == [t |-> "array", v |-> xs]
\* a keyed map: its entries <<key, value>> in iteration order
ObjV(es) == [t |-> "object", v |-> es]
\* a function, which is what a plain object inherits from Object.prototype
FunctionV == [t |-> "function", v |-> 0]

DigitChars == <<"0", "1", "2", "3", "4", "5", "6", "7", "8", "9">>

RECURSIVE NatDigits(_)
NatDigits(n) ==
    IF n < 10 THEN <<DigitChars[n + 1]>>
    ELSE NatDigits(n \div 10) \o <<DigitChars[(n % 10) + 1]>>

\* String(n) of an integer
NumberToString(n) == IF n < 0 THEN <<"-">> \o NatDigits(-n) ELSE NatDigits(n)

EscapeChar(c) ==
    CASE c = "\"" -> <<"\\", "\"">>
      [] c = "\\" -> <<"\\", "\\">>
      [] c = "\n" -> <<"\\", "n">>
      [] c = "\t" -> <<"\\", "t">>
      [] c = "\r" -> <<"\\", "r">>
      [] OTHER -> <<c>>

Quote(s) == <<"\"">> \o Flatten([i \in 1..Len(s) |-> EscapeChar(s[i])]) \o <<"\"">>

RECURSIVE JoinWith(_, _)
JoinWith(parts, sep) ==
    IF parts = <<>> THEN <<>>
    ELSE IF Len(parts) = 1 THEN parts[1]
    ELSE parts[1] \o sep \o JoinWith(Tail(parts), sep)

RECURSIVE JSONStringify(_)
JSONStringify(val) ==
    CASE val.t = "string" -> Quote(val.v)
      [] val.t = "number" -> NumberToString(val.v)
      [] val.t = "boolean" ->
            IF val.v THEN <<"t", "r", "u", "e">> ELSE <<"f", "a", "l", "s", "e">>
      [] val.t = "null" -> <<"n", "u", "l", "l">>
      [] val.t = "array" ->
            <<"[">> \o JoinWith([i \in 1..Len(val.v) |-> JSONStringify(val.v[i])], <<",">>)
                    \o <<"]">>
      [] val.t = "object" ->
            <<"{">> \o JoinWith([i \in 1..Len(val.v) |->
                                    Quote(val.v[i][1]) \o <<":">> \o JSONStringify(val.v[i][2])],
                                <<",">>)
                    \o <<"}">>

----------------------------------------------------------------------------
(***************************************************************************)
(* findFinalAnswer                                                         *)
(***************************************************************************)
Undefined == [defined |-> FALSE, value |-> <<>>]
Defined(s) == [defined |-> TRUE, value |-> s]

\* no environment argument
NoEnvironment == [given |-> FALSE, keys |-> {}, get |-> <<>>]
\* an environment: its own keys and the value of each
Env(f) == [given |-> TRUE, keys |-> DOMAIN f, get |-> f]

\* Names every plain object inherits; their values are functions (the runtime of
\* the repository, Deno, has no __proto__ accessor on Object.prototype).
T_toString == <<"t", "o", "S", "t", "r", "i", "n", "g">>
T_constructor == <<"c", "o", "n", "s", "t", "r", "u", "c", "t", "o", "r">>
ObjectPrototypeKeys == {T_toString, T_constructor}

\* varName in environment (line 93): own and inherited properties
HasProperty(env, name) == name \in env.keys \cup ObjectPrototypeKeys
\* environment[varName] (line 98)
GetProperty(env, name) == IF name \in env.keys THEN env.get[name] ELSE FunctionV

\* every value serialized, a string too
ValueToString_AlwaysJSON(value) == Defined(JSONStringify(value))

\* lines 97-102: the string itself, or JSON.stringify of any other value, which is
\* undefined for a function
ValueToString(value) ==
    IF value.t = "string" THEN Defined(value.v)
    ELSE IF value.t = "function" THEN Undefined
    ELSE Defined(JSONStringify(value))

\* lines 88-103
ResolveFinalVar(arg, env) ==
    LET varName == VarName(arg)
    IN  IF ~env.given \/ ~HasProperty(env, varName)
        THEN Undefined
        ELSE ValueToString(GetProperty(env, varName))

\* the single-quoted rule tried before the double-quoted one
FindFinalLiteral_SingleFirst(s) ==
    LET doubleQuoteMatch == MatchDelimited(s, L_FINAL_DQ, "\"", 0, <<"\"", ")">>)
        singleQuoteMatch == MatchDelimited(s, L_FINAL_SQ, "'", 0, <<"'", ")">>)
        rawMatch == MatchDelimited(s, L_FINAL, ")", 1, <<")">>)
    IN  IF singleQuoteMatch.found THEN Defined(singleQuoteMatch.group)
        ELSE IF doubleQuoteMatch.found THEN Defined(doubleQuoteMatch.group)
        ELSE IF rawMatch.found THEN Defined(rawMatch.group)
        ELSE Undefined

\* lines 105-123, the literal and raw rules in their order (the first definition
\* of the file, lines 26-49, is these rules alone)
FindFinalLiteral(s) ==
    LET doubleQuoteMatch == MatchDoubleQuote(s)
        singleQuoteMatch == MatchSingleQuote(s)
        rawMatch == MatchRaw(s)
    IN  IF doubleQuoteMatch.found THEN Defined(doubleQuoteMatch.group)
        ELSE IF singleQuoteMatch.found THEN Defined(singleQuoteMatch.group)
        ELSE IF rawMatch.found THEN Defined(rawMatch.group)
        ELSE Undefined

\* the variable marker consulted only when no literal or raw marker matches
findFinalAnswer_LiteralFirst(s, env) ==
    LET finalVarMatch == MatchFinalVar(s)
        literal == FindFinalLiteral(s)
    IN  IF literal.defined THEN literal
        ELSE IF finalVarMatch.found THEN ResolveFinalVar(finalVarMatch.group, env)
        ELSE Undefined

\* lines 83-124
findFinalAnswer(s, env) ==
    LET finalVarMatch == MatchFinalVar(s)
    IN  IF finalVarMatch.found
        THEN ResolveFinalVar(finalVarMatch.group, env)
        ELSE FindFinalLiteral(s)

----------------------------------------------------------------------------
(***************************************************************************)
(* Response texts for findFinalAnswer: every sequence of at most MaxFrags  *)
(* fragments.  The fragments are the marker forms of the tests and the     *)
(* pieces from which malformed or nested markers are built.                *)
(***************************************************************************)
T_x == <<"x">>
T_hi == <<"h", "i">>
T_42 == <<"4", "2">>
T_calculate == <<"c", "a", "l", "c", "u", "l", "a", "t", "e", "(", "1", "+", "2", ")">>

AnswerFragments ==
    { L_FINAL_VAR \o T_x \o <<")">>,              \* FINAL_VAR(x)
      L_FINAL_VAR \o T_toString \o <<")">>,       \* FINAL_VAR(toString)
      L_FINAL_DQ \o <<"a">> \o <<"\"", ")">>,     \* FINAL("a")
      L_FINAL_SQ \o <<"b">> \o <<"'", ")">>,      \* FINAL('b')
      L_FINAL \o T_42 \o <<")">>,                 \* FINAL(42)
      L_FINAL \o T_calculate \o <<")">>,          \* FINAL(calculate(1+2))
      L_FINAL_VAR, L_FINAL,
      <<"\"">>, <<"'">>, <<"(">>, <<")">>, <<" ">>, T_x }

FragmentSeqs(F, n) == UNION {[1..k -> F] : k \in 0..n}

AnswerTexts == {Flatten(fs) : fs \in FragmentSeqs(AnswerFragments, MaxFrags)}

AnswerEnvironments ==
    { NoEnvironment,
      Env(<<>>),
      Env(T_x :> StrV(T_hi)) }

NoMarker == [quote |-> "", contents |-> <<>>]

IdleAnswer ==
    /\ text = <<>>
    /\ environment = NoEnvironment
    /\ answer = Undefined
    /\ marker = NoMarker

IdleBlocks ==
    /\ segments = <<>>
    /\ blocks = <<>>

NoMetadata ==
    [threw |-> FALSE, contextLengths |-> <<>>, contextTotalLength |-> 0, contextType |-> ""]
NoOptions == [given |-> FALSE]
NoMessage == [role |-> "", content |-> <<>>]

IdlePrompts ==
    /\ context = NullV
    /\ systemPrompt = ""
    /\ queryMetadata = NoMetadata
    /\ messages = <<>>
    /\ options = NoOptions
    /\ userMessage = NoMessage

InitAnswer ==
    /\ pc = "start"
    /\ text \in AnswerTexts
    /\ environment \in AnswerEnvironments
    /\ answer = Undefined
    /\ marker = NoMarker
    /\ IdleBlocks
    /\ IdlePrompts

\* the orchestrator asks for the final answer of the response text
FindFinalAnswer ==
    /\ pc = "start"
    /\ answer' = findFinalAnswer(text, environment)
    /\ pc' = "done"
    /\ UNCHANGED <<text, environment, marker, blockVars, promptVars>>

NextAnswer == FindFinalAnswer

SpecAnswer == InitAnswer /\ [][NextAnswer]_vars

----------------------------------------------------------------------------
(***************************************************************************)
(* The markers of a text, stated without the matchers: an occurrence of    *)
(* the opening literal, then at least min characters other than stop, then *)
(* the closing literal.                                                    *)
(***************************************************************************)
Occurrences(s, lit) == {i \in 1..Len(s) : LitAt(s, i, lit)}

MarkersOf(s, open, stop, min, close) ==
    UNION { { [index |-> i, group |-> SubSeq(s, i + Len(open), k - 1)] :
                k \in { k \in (i + Len(open) + min)..Len(s) :
                          /\ LitAt(s, k, close)
                          /\ \A j \in (i + Len(open))..(k - 1) : s[j] # stop } } :
            i \in Occurrences(s, open) }

VarMarkers(s) == MarkersOf(s, L_FINAL_VAR, ")", 1, <<")">>)
DoubleQuotedMarkers(s) == MarkersOf(s, L_FINAL_DQ, "\"", 0, <<"\"", ")">>)
SingleQuotedMarkers(s) == MarkersOf(s, L_FINAL_SQ, "'", 0, <<"'", ")">>)
RawMarkers(s) == MarkersOf(s, L_FINAL, ")", 1, <<")">>)

FirstMarker(M) == CHOOSE m \in M : \A n \in M : m.index <= n.index

\* what the variable marker of the text resolves to in the environment
VarResolution(s, env) ==
    LET name == VarName(FirstMarker(VarMarkers(s)).group)
    IN  IF env.given /\ name \in env.keys
        THEN LET value == env.get[name]
             IN  Defined(IF value.t = "string" THEN value.v ELSE JSONStringify(value))
        ELSE Undefined

\* C1: a text with a variable marker FINAL_VAR(...) resolves by that marker alone,
\* whatever literal or raw FINAL markers stand before or after it: to the value of
\* the named variable when the name is a key of the environment, to undefined when
\* there is no environment or the name is no key; never to a literal's contents.
C1_VarMarkerDecides ==
    (pc = "done" /\ VarMarkers(text) # {}) =>
        /\ answer = VarResolution(text, environment)
        /\ (~environment.given => answer = Undefined)

\* a quoted literal before the variable marker and a raw marker after it, and the
\* answer is the variable's value
C1_Witness ==
    /\ pc = "done"
    /\ VarMarkers(text) # {}
    /\ DoubleQuotedMarkers(text) # {}
    /\ FirstMarker(DoubleQuotedMarkers(text)).index < FirstMarker(VarMarkers(text)).index
    /\ \E r \in RawMarkers(text) : r.index > FirstMarker(VarMarkers(text)).index
    /\ environment.given
    /\ answer = Defined(T_hi)

\* C2: a text with no variable marker resolves by rule order, not by position: the
\* contents of a double-quoted marker if there is one anywhere, else those of a
\* single-quoted marker, else the argument of a raw marker, else undefined.
C2_RuleOrder ==
    (pc = "done" /\ VarMarkers(text) = {}) =>
        answer = IF DoubleQuotedMarkers(text) # {}
                   THEN Defined(FirstMarker(DoubleQuotedMarkers(text)).group)
                 ELSE IF SingleQuotedMarkers(text) # {}
                   THEN Defined(FirstMarker(SingleQuotedMarkers(text)).group)
                 ELSE IF RawMarkers(text) # {}
                   THEN Defined(FirstMarker(RawMarkers(text)).group)
                 ELSE Undefined

\* a double-quoted marker that stands after a single-quoted one wins
C2_Witness ==
    /\ pc = "done"
    /\ VarMarkers(text) = {}
    /\ SingleQuotedMarkers(text) # {}
    /\ DoubleQuotedMarkers(text) # {}
    /\ FirstMarker(SingleQuotedMarkers(text)).index
          < FirstMarker(DoubleQuotedMarkers(text)).index
    /\ answer = Defined(<<"a">>)

\* C4: with no variable marker and no quoted literal, a raw marker resolves to
\* exactly the characters between "FINAL(" and the first ")" after it, untrimmed;
\* FINAL(calculate(1+2)) resolves to calculate(1+2.
C4_RawUpToFirstParen ==
    (/\ pc = "done"
     /\ VarMarkers(text) = {}
     /\ DoubleQuotedMarkers(text) = {}
     /\ SingleQuotedMarkers(text) = {}
     /\ RawMarkers(text) # {}) =>
        LET p == FirstMarker(RawMarkers(text)).index + Len(L_FINAL)
            close == Min({j \in p..Len(text) : text[j] = ")"})
        IN  /\ answer = Defined(SubSeq(text, p, close - 1))
            /\ (text = L_FINAL \o T_calculate \o <<")">> =>
                    answer = Defined(SubSeq(T_calculate, 1, Len(T_calculate) - 1)))

\* FINAL(calculate(1+2)) has resolved to calculate(1+2
C4_Witness ==
    /\ pc = "done"
    /\ text = L_FINAL \o T_calculate \o <<")">>
    /\ answer = Defined(<<"c", "a", "l", "c", "u", "l", "a", "t", "e", "(", "1", "+", "2">>)

----------------------------------------------------------------------------
(***************************************************************************)
(* SpecQuoted: responses whose marker is a quoted literal FINAL("s") or    *)
(* FINAL('s'), for every contents s of at most MaxFrags fragments that do  *)
(* not hold the quote character itself.                                    *)
(***************************************************************************)
DQ == "\""
SQ == "'"

ContentFragments(q) ==
    { T_x, <<" ">>, <<"(">>, <<")">>,
      <<IF q = DQ THEN SQ ELSE DQ>>,                          \* the other quote
      L_FINAL_VAR,
      L_FINAL_VAR \o T_x \o <<")">>,                          \* FINAL_VAR(x)
      L_FINAL \o T_42 \o <<")">>,                             \* FINAL(42)
      IF q = DQ THEN L_FINAL_SQ \o <<"b">> \o <<"'", ")">>    \* FINAL('b')
                ELSE L_FINAL_DQ \o <<"a">> \o <<"\"", ")">> } \* FINAL("a")

QuotedContents(q) == {Flatten(fs) : fs \in FragmentSeqs(ContentFragments(q), MaxFrags)}

QuotedLiteral(q, s) == L_FINAL \o <<q>> \o s \o <<q, ")">>

Prose == { <<>>, <<"x", " ">> }

InitQuoted ==
    /\ pc = "start"
    /\ \E q \in {DQ, SQ} : \E s \in QuotedContents(q) :
          marker = [quote |-> q, contents |-> s]
    /\ \E pre \in Prose : text = pre \o QuotedLiteral(marker.quote, marker.contents)
    /\ environment \in {NoEnvironment, Env(T_x :> StrV(T_hi))}
    /\ answer = Undefined
    /\ IdleBlocks
    /\ IdlePrompts

SpecQuoted == InitQuoted /\ [][NextAnswer]_vars

\* C5 as claimed: FINAL("s") resolves to exactly s for every s without a double
\* quote, and FINAL('s') to exactly s for every s without a single quote.
C5_Original ==
    pc = "done" => answer = Defined(marker.contents)

\* C5, amended: FINAL("s") resolves to exactly s when the response holds no variable
\* marker, and FINAL('s') to exactly s when the response holds neither a variable
\* marker nor a double-quoted marker; the empty text and contents with parentheses
\* included.
C5_QuotedVerbatim ==
    (/\ pc = "done"
     /\ VarMarkers(text) = {}
     /\ (marker.quote = SQ => DoubleQuotedMarkers(text) = {})) =>
        answer = Defined(marker.contents)

\* FINAL('(x)') has resolved to (x), parentheses kept
C5_Witness ==
    /\ pc = "done"
    /\ marker = [quote |-> SQ, contents |-> <<"(", "x", ")">>]
    /\ answer = Defined(<<"(", "x", ")">>)

----------------------------------------------------------------------------
(***************************************************************************)
(* SpecResolve: responses with one variable marker, in each of its three   *)
(* forms, and environments that bind x to a value of each type.            *)
(***************************************************************************)
T_y == <<"y">>
T_key == <<"k", "e", "y">>
T_value == <<"v", "a", "l", "u", "e">>

EnvValues ==
    { StrV(T_hi), StrV(<<>>), StrV(<<"a", "\"", "b">>), StrV(<<"1", "2", "3">>),
      NumV(123), NumV(0), NumV(-7),
      BoolV(TRUE), BoolV(FALSE),
      NullV,
      ArrV(<<NumV(1), NumV(2), NumV(3)>>), ArrV(<<>>),
      ArrV(<<StrV(T_hi), NullV, ArrV(<<BoolV(TRUE)>>)>>),
      ObjV(<< <<T_key, StrV(T_value)>> >>), ObjV(<<>>),
      ObjV(<< <<T_x, NumV(1)>>, <<T_y, ArrV(<<NullV>>)>> >>) }

VarTexts ==
    { pre \o L_FINAL_VAR \o sp \o q \o name \o q \o <<")">> \o post :
        pre \in {<<>>, L_FINAL_DQ \o <<"a">> \o <<"\"", ")">>},
        sp \in {<<>>, <<" ">>},
        q \in {<<>>, <<DQ>>, <<SQ>>},
        name \in {T_x, T_y},
        post \in {<<>>, L_FINAL \o T_42 \o <<")">>} }

ResolveEnvironments ==
    {Env(T_x :> v) : v \in EnvValues}
        \cup {Env(T_x :> v @@ T_y :> StrV(T_value)) : v \in EnvValues}

InitResolve ==
    /\ pc = "start"
    /\ text \in VarTexts
    /\ environment \in ResolveEnvironments
    /\ answer = Undefined
    /\ marker = NoMarker
    /\ IdleBlocks
    /\ IdlePrompts

SpecResolve == InitResolve /\ [][NextAnswer]_vars

\* the variable the marker of the text names, when it is a key of the environment
NamedKey == VarName(FirstMarker(VarMarkers(text)).group)

\* C3: when the variable marker names a key of the environment, the answer is the
\* bound value unchanged if it is text and its JSON serialization otherwise (123
\* gives "123", [1,2,3] gives "[1,2,3]", {key: "value"} gives {"key":"value"}); a
\* text is never quoted, and the answer is defined for a value of every type.
C3_ValueToText ==
    (/\ pc = "done"
     /\ VarMarkers(text) # {}
     /\ environment.given
     /\ NamedKey \in environment.keys) =>
        LET value == environment.get[NamedKey]
        IN  /\ answer.defined
            /\ (value.t = "string" => answer.value = value.v)
            /\ (value.t # "string" => answer.value = JSONStringify(value))
            /\ (value = NumV(123) => answer.value = <<"1", "2", "3">>)
            /\ (value = ArrV(<<NumV(1), NumV(2), NumV(3)>>) =>
                    answer.value = <<"[", "1", ",", "2", ",", "3", "]">>)
            /\ (value = ObjV(<< <<T_key, StrV(T_value)>> >>) =>
                    answer.value = <<"{", "\"", "k", "e", "y", "\"", ":",
                                     "\"", "v", "a", "l", "u", "e", "\"", "}">>)
            /\ (value = NullV => answer.value = <<"n", "u", "l", "l">>)
            /\ (value = BoolV(FALSE) => answer.value = <<"f", "a", "l", "s", "e">>)

\* FINAL_VAR("x") with x bound to {key: "value"} has resolved to its serialization
C3_Witness ==
    /\ pc = "done"
    /\ VarMarkers(text) # {}
    /\ NamedKey = T_x
    /\ environment.given
    /\ environment.get[T_x] = ObjV(<< <<T_key, StrV(T_value)>> >>)
    /\ answer = Defined(<<"{", "\"", "k", "e", "y", "\"", ":",
                          "\"", "v", "a", "l", "u", "e", "\"", "}">>)

----------------------------------------------------------------------------
(***************************************************************************)
(* findCodeBlocks, lines 64-74.  Its pattern is: three backticks, repl,    *)
(* \s*, \n, the lazy group (.*?), \n, three backticks; flags g and s.      *)
(***************************************************************************)
MaxSegments == 3

NL == "\n"
\* the backtick character, which a string of this language cannot hold
BT == "BACKTICK"
L_FENCE == <<BT, BT, BT>>
L_REPL == L_FENCE \o <<"r", "e", "p", "l">>
L_CLOSE == <<NL>> \o L_FENCE

\* the length of the run of whitespace that starts at index p
RECURSIVE SpaceRun(_, _)
SpaceRun(s, p) == IF p <= Len(s) /\ IsSpace(s[p]) THEN 1 + SpaceRun(s, p + 1) ELSE 0

\* where the lazy group (.*?) that starts at index g may end: before each \n and fence
CloseIndexes(s, g) == {e \in g..Len(s) : LitAt(s, e, L_CLOSE)}

(***************************************************************************)
(* The match that starts at index i.  \s* is greedy and takes line breaks  *)
(* too: the engine tries the longest run of whitespace first and gives     *)
(* back one character at a time, and for each length needs a \n next and   *)
(* then the nearest \n and fence after it.                                *)
(***************************************************************************)
BlockAt(s, i) ==
    IF ~LitAt(s, i, L_REPL) THEN NoMatch
    ELSE LET p == i + Len(L_REPL)
             widths == {w \in 0..SpaceRun(s, p) :
                          /\ p + w <= Len(s)
                          /\ s[p + w] = NL
                          /\ CloseIndexes(s, p + w + 1) # {}}
         IN  IF widths = {} THEN NoMatch
             ELSE LET g == p + Max(widths) + 1
                      e == Min(CloseIndexes(s, g))
                  IN  [found |-> TRUE, index |-> i, group |-> SubSeq(s, g, e - 1),
                       end |-> e + Len(L_CLOSE)]

\* pattern.exec(text) with lastIndex = from: the leftmost match at or after from
ExecBlock(s, from) ==
    LET hits == {i \in from..Len(s) : BlockAt(s, i).found}
    IN  IF hits = {} THEN NoMatch ELSE BlockAt(s, Min(hits))

\* the while loop of lines 69-71
RECURSIVE CollectBlocks(_, _)
CollectBlocks(s, from) ==
    LET match == ExecBlock(s, from)
    IN  IF ~match.found THEN <<>>
        ELSE <<match.group>> \o CollectBlocks(s, match.end)

findCodeBlocks(s) == CollectBlocks(s, 1)

(***************************************************************************)
(* SpecBlocks: texts made of at most MaxSegments segments, each a          *)
(* well-formed repl block, a well-formed block with another tag, or a line *)
(* of prose.                                                               *)
(***************************************************************************)
ReplBlock(trail, content) == [kind |-> "repl", trail |-> trail, content |-> content]
OtherBlock(content) == [kind |-> "other", trail |-> <<>>, content |-> content]
ProseLine(content) == [kind |-> "prose", trail |-> <<>>, content |-> content]

BlockContents ==
    { <<"x">>,                         \* one line
      <<"x", NL, "y">>,                \* two lines
      <<"x", NL, NL, "y">>,            \* a blank line inside
      <<" ", "x">>,                    \* an indented line
      <<"x", NL>>,                     \* a blank line last
      <<NL, "x">>,                     \* a blank line first
      <<>> }                           \* one empty line

SegmentKinds ==
    {ReplBlock(<<>>, c) : c \in BlockContents}
        \cup {ReplBlock(<<" ">>, <<"x">>), OtherBlock(<<"z">>), ProseLine(<<"x">>)}

SegmentText(g) ==
    CASE g.kind = "repl" -> L_REPL \o g.trail \o <<NL>> \o g.content \o <<NL>> \o L_FENCE \o <<NL>>
      [] g.kind = "other" -> L_FENCE \o <<"j", "s", NL>> \o g.content \o <<NL>> \o L_FENCE \o <<NL>>
      [] g.kind = "prose" -> g.content \o <<NL>>

InitBlocks ==
    /\ pc = "start"
    /\ segments \in FragmentSeqs(SegmentKinds, MaxSegments)
    /\ text = Flatten([i \in 1..Len(segments) |-> SegmentText(segments[i])])
    /\ blocks = <<>>
    /\ environment = NoEnvironment
    /\ answer = Undefined
    /\ marker = NoMarker
    /\ IdlePrompts

\* the orchestrator asks for the code blocks of the response text
FindCodeBlocks ==
    /\ pc = "start"
    /\ blocks' = findCodeBlocks(text)
    /\ pc' = "done"
    /\ UNCHANGED <<answerVars, segments, promptVars>>

NextBlocks == FindCodeBlocks

SpecBlocks == InitBlocks /\ [][NextBlocks]_vars

\* the repl blocks among the segments, in source order
ReplSegments == SelectSeq(segments, LAMBDA g : g.kind = "repl")

\* C6: of a text made of n well-formed repl blocks and m blocks with other tags,
\* in any order, findCodeBlocks returns exactly n blocks, one for each repl block.
C6_Original ==
    pc = "done" => Len(blocks) = Len(ReplSegments)

\* C10: each block returned is exactly the text between its opening fence line and
\* the next closing fence line, blank lines first or last included.
C10_Original ==
    pc = "done" =>
        /\ Len(blocks) = Len(ReplSegments)
        /\ \A i \in 1..Len(blocks) : blocks[i] = ReplSegments[i].content

----------------------------------------------------------------------------
(***************************************************************************)
(* createQueryMetadata and buildRlmSystemPrompt.  The content of a message *)
(* is the sequence of the pieces its template concatenates: the literal    *)
(* parts as they stand, each interpolated value as the text it renders to. *)
(***************************************************************************)
MaxChunks == 2
MaxLong == 150

\* the most chunk lengths buildRlmSystemPrompt renders (line 197)
LengthsCap == 100

\* lengths.reduce((a, b) => a + b, 0); the sum is taken by halves, which keeps the
\* evaluation shallow for a long list
RECURSIVE SumRange(_, _, _)
SumRange(ns, lo, hi) ==
    IF lo > hi THEN 0
    ELSE IF lo = hi THEN ns[lo]
    ELSE LET mid == (lo + hi) \div 2
         IN  SumRange(ns, lo, mid) + SumRange(ns, mid + 1, hi)

Sum(ns) == SumRange(ns, 1, Len(ns))

\* lines 157-158 and 169-170: the length of a string, of the serialization otherwise
ChunkLength(chunk) ==
    IF chunk.t = "string" THEN Len(chunk.v) ELSE Len(JSONStringify(chunk))

Metadata(lengths, total, type) ==
    [threw |-> FALSE, contextLengths |-> lengths, contextTotalLength |-> total,
     contextType |-> type]

\* Object.values of null throws a TypeError
MetadataThrew ==
    [threw |-> TRUE, contextLengths |-> <<>>, contextTotalLength |-> 0, contextType |-> ""]

\* a list context with no case for the empty list
createQueryMetadata_NoEmptyCase(ctx) ==
    LET values == IF ctx.t = "object" THEN [i \in 1..Len(ctx.v) |-> ctx.v[i][2]]
                  ELSE IF ctx.t = "array" THEN ctx.v ELSE <<>>
        lengths == [i \in 1..Len(values) |-> ChunkLength(values[i])]
    IN  IF ctx.t = "string" THEN Metadata(<<Len(ctx.v)>>, Len(ctx.v), "str")
        ELSE IF ctx.t = "array" THEN Metadata(lengths, Sum(lengths), "list")
        ELSE IF ctx.t = "null" THEN MetadataThrew
        ELSE Metadata(lengths, Sum(lengths), "dict")

\* lines 137-177
createQueryMetadata(ctx) ==
    IF ctx.t = "string"
    THEN Metadata(<<Len(ctx.v)>>, Len(ctx.v), "str")
    ELSE IF ctx.t = "array"
    THEN IF Len(ctx.v) = 0
         THEN Metadata(<<0>>, 0, "list")
         ELSE LET lengths == [i \in 1..Len(ctx.v) |-> ChunkLength(ctx.v[i])]
              IN  Metadata(lengths, Sum(lengths), "list")
    ELSE IF ctx.t = "null"
    THEN MetadataThrew
    ELSE \* Object.values: the values of a keyed map in iteration order, and no
         \* value at all of a number or a boolean
         LET values == IF ctx.t = "object" THEN [i \in 1..Len(ctx.v) |-> ctx.v[i][2]]
                       ELSE <<>>
             lengths == [i \in 1..Len(values) |-> ChunkLength(values[i])]
         IN  Metadata(lengths, Sum(lengths), "dict")

\* Array.prototype.join of the rendered numbers, piece by piece
JoinPieces(ns, sep) ==
    IF ns = <<>> THEN <<>>
    ELSE [k \in 1..(2 * Len(ns) - 1) |->
            IF k % 2 = 1 THEN ToString(ns[(k + 1) \div 2]) ELSE sep]

P_CONTEXT_IS == "Your context is a "
P_WITH == " with "
P_TOTAL == " total characters, and is broken up into chunks of char lengths: "
P_OTHERS_OPEN == "]... ["
P_OTHERS_CLOSE == " others]"

\* lines 205-206
MetadataPrompt(contextType, contextTotalLength, lengthsStr) ==
    <<P_CONTEXT_IS, contextType, P_WITH, ToString(contextTotalLength), P_TOTAL>>
        \o lengthsStr \o <<".">>

\* the cut made at a length of LengthsCap already
buildRlmSystemPrompt_CutAtCap(sysPrompt, md) ==
    LET lengthsStr ==
            IF Len(md.contextLengths) >= LengthsCap
            THEN <<"[">> \o JoinPieces(SubSeq(md.contextLengths, 1, LengthsCap), ", ")
                   \o <<P_OTHERS_OPEN, ToString(Len(md.contextLengths) - LengthsCap),
                        P_OTHERS_CLOSE>>
            ELSE <<"[">> \o JoinPieces(md.contextLengths, ", ") \o <<"]">>
    IN  [messages |->
            << [role |-> "system", content |-> <<sysPrompt>>],
               [role |-> "assistant",
                content |-> MetadataPrompt(md.contextType, md.contextTotalLength, lengthsStr)] >>,
         queryMetadata |-> md]

\* lines 189-212: the messages returned, and the metadata object as the call leaves
\* it (slice copies, and only the local contextLengths is assigned)
buildRlmSystemPrompt(sysPrompt, md) ==
    LET others == Len(md.contextLengths) - LengthsCap
        lengthsStr ==
            IF Len(md.contextLengths) > LengthsCap
            THEN <<"[">> \o JoinPieces(SubSeq(md.contextLengths, 1, LengthsCap), ", ")
                   \o <<P_OTHERS_OPEN, ToString(others), P_OTHERS_CLOSE>>
            ELSE <<"[">> \o JoinPieces(md.contextLengths, ", ") \o <<"]">>
    IN  [messages |->
            << [role |-> "system", content |-> <<sysPrompt>>],
               [role |-> "assistant",
                content |-> MetadataPrompt(md.contextType, md.contextTotalLength, lengthsStr)] >>,
         queryMetadata |-> md]

(***************************************************************************)
(* SpecMetadata: contexts of each declared shape with at most MaxChunks    *)
(* chunks, and lists long enough to reach and pass the cap.                *)
(***************************************************************************)
T_ab == <<"a", "b">>
T_cde == <<"c", "d", "e">>
T_abcde == T_ab \o T_cde

ChunkValues ==
    { StrV(T_ab), StrV(T_cde), StrV(<<>>), ObjV(<< <<T_key, StrV(T_value)>> >>) }

DictKeys == << <<"a">>, <<"b">>, <<"c">>, <<"d">> >>

\* a list of n strings of lengths 1, 2, 3, 1, 2, 3, ...
LongList(n) == ArrV([i \in 1..n |-> StrV([j \in 1..(((i - 1) % 3) + 1) |-> "x"])])

LongSizes == {LengthsCap - 1, LengthsCap, LengthsCap + 1, MaxLong}

Contexts ==
    {StrV(<<>>), StrV(T_ab), StrV(T_abcde)}
        \cup {ArrV(cs) : cs \in FragmentSeqs(ChunkValues, MaxChunks)}
        \cup {ObjV([i \in 1..Len(cs) |-> <<DictKeys[i], cs[i]>>]) :
                cs \in FragmentSeqs(ChunkValues, MaxChunks)}
        \cup {LongList(n) : n \in LongSizes}

SystemPrompts == {"", "You are tasked with answering a query with associated context."}

InitMetadata ==
    /\ pc = "start"
    /\ context \in Contexts
    /\ systemPrompt \in SystemPrompts
    /\ queryMetadata = NoMetadata
    /\ messages = <<>>
    /\ options = NoOptions
    /\ userMessage = NoMessage
    /\ IdleAnswer
    /\ IdleBlocks

\* the orchestrator describes the context once, at the start of the loop
CreateQueryMetadata ==
    /\ pc = "start"
    /\ queryMetadata' = createQueryMetadata(context)
    /\ pc' = "described"
    /\ UNCHANGED <<answerVars, blockVars, context, systemPrompt, messages, options,
                   userMessage>>

\* the orchestrator builds the first two messages from the metadata
BuildRlmSystemPrompt ==
    /\ pc = "described"
    /\ ~queryMetadata.threw
    /\ LET built == buildRlmSystemPrompt(systemPrompt, queryMetadata)
       IN  /\ messages' = built.messages
           /\ queryMetadata' = built.queryMetadata
    /\ pc' = "done"
    /\ UNCHANGED <<answerVars, blockVars, context, systemPrompt, options, userMessage>>

NextMetadata == CreateQueryMetadata \/ BuildRlmSystemPrompt

SpecMetadata == InitMetadata /\ [][NextMetadata]_vars


\* the chunks of a context of a declared shape, in iteration order
ChunksOf(ctx) ==
    CASE ctx.t = "string" -> <<ctx>>
      [] ctx.t = "array" -> ctx.v
      [] ctx.t = "object" -> [i \in 1..Len(ctx.v) |-> ctx.v[i][2]]

\* C7: the metadata of a context of a declared shape has a total equal to the sum
\* of its lengths and one length for each chunk in iteration order: the text length
\* and type str for a text, one length an element and type list for a list that is
\* not empty, one length a value and type dict for a keyed map, and the single
\* length 0, total 0 and type list for the empty list.
C7_MetadataShape ==
    pc # "start" =>
        LET md == queryMetadata
            chunks == ChunksOf(context)
            perChunk ==
                /\ Len(md.contextLengths) = Len(chunks)
                /\ \A i \in 1..Len(chunks) :
                      md.contextLengths[i] =
                          IF chunks[i].t = "string" THEN Len(chunks[i].v)
                          ELSE Len(JSONStringify(chunks[i]))
        IN  /\ ~md.threw
            /\ md.contextTotalLength = Sum(md.contextLengths)
            /\ (context.t = "string" =>
                    /\ md.contextLengths = <<Len(context.v)>>
                    /\ md.contextType = "str")
            /\ (context.t = "array" /\ context.v # <<>> =>
                    perChunk /\ md.contextType = "list")
            /\ (context.t = "object" => perChunk /\ md.contextType = "dict")
            /\ (context = ArrV(<<>>) => md = Metadata(<<0>>, 0, "list"))
            /\ (context = StrV(T_abcde) => md = Metadata(<<5>>, 5, "str"))
            /\ (context = ArrV(<<StrV(T_ab), StrV(T_cde)>>) =>
                    md = Metadata(<<2, 3>>, 5, "list"))

\* the empty list has been described as one chunk of length 0
C7_Witness ==
    /\ pc = "described"
    /\ context = ArrV(<<>>)
    /\ queryMetadata = Metadata(<<0>>, 0, "list")

\* the numbers the assistant message shows between its opening bracket and the
\* bracket that closes the list
ShownLengths(content) ==
    LET open == 6
        close == Min({i \in (open + 1)..Len(content) :
                        content[i] \in {"]", P_OTHERS_OPEN}})
    IN  [k \in 1..((close - open) \div 2) |-> content[open + 2 * k - 1]]

OthersShown(content) ==
    \E i \in 1..Len(content) : content[i] \in {P_OTHERS_OPEN, P_OTHERS_CLOSE}

\* C8: of n chunk lengths the assistant message shows all n in order and no others
\* suffix when n <= 100, and the first 100 in order followed by "... [k others]"
\* with k = n - 100 when n > 100; the total shown is the full total, and the
\* metadata handed in is as it was.
C8_LengthsCapped ==
    pc = "done" =>
        LET md == createQueryMetadata(context)
            n == Len(md.contextLengths)
            content == messages[2].content
            shown == ShownLengths(content)
        IN  /\ Len(messages) = 2
            /\ messages[1] = [role |-> "system", content |-> <<systemPrompt>>]
            /\ messages[2].role = "assistant"
            /\ content[6] = "["
            /\ content[4] = ToString(Sum(md.contextLengths))
            /\ content[Len(content)] = "."
            /\ queryMetadata = md
            /\ (n <= 100 =>
                    /\ Len(shown) = n
                    /\ \A i \in 1..n : shown[i] = ToString(md.contextLengths[i])
                    /\ ~OthersShown(content)
                    /\ content[Len(content) - 1] = "]")
            /\ (n > 100 =>
                    /\ Len(shown) = 100
                    /\ \A i \in 1..100 : shown[i] = ToString(md.contextLengths[i])
                    /\ SubSeq(content, Len(content) - 3, Len(content) - 1)
                          = <<"]... [", ToString(n - 100), " others]">>)
            /\ (n = 150 => content[Len(content) - 2] = "50")

\* a list of more than 100 chunks has been rendered with its others suffix
C8_Witness ==
    /\ pc = "done"
    /\ Len(queryMetadata.contextLengths) > LengthsCap
    /\ Len(ShownLengths(messages[2].content)) = LengthsCap
    /\ OthersShown(messages[2].content)

----------------------------------------------------------------------------
(***************************************************************************)
(* buildUserPrompt                                                         *)
(***************************************************************************)
MaxCount == 3

\* an optional field of PromptOptions: given with a value, or left out
Some(v) == [some |-> TRUE, v |-> v]
NoNumber == [some |-> FALSE, v |-> 0]
NoString == [some |-> FALSE, v |-> ""]

\* the default of the destructuring (lines 225-230)
OrDefault(field, default) == IF field.some THEN field.v ELSE default

P_PLACEHOLDER == "{rootPrompt}"
P_TAIL ==
    << BT, "context", BT, " variable, and querying sub-LLMs by writing to ",
       BT, BT, BT, "repl", BT, BT, BT,
       " tags, and determine your answer. Your next action:" >>

\* lines 122-123
USER_PROMPT ==
    << "Think step-by-step on what to do using the REPL environment (which contains the context) to answer the prompt.\n\nContinue using the REPL environment, which has the " >>
        \o P_TAIL

\* lines 125-126
USER_PROMPT_WITH_ROOT ==
    << "Think step-by-step on what to do using the REPL environment (which contains the context) to answer the original prompt: \"",
       P_PLACEHOLDER,
       "\".\n\nContinue using the REPL environment, which has the " >>
        \o P_TAIL

\* String.prototype.replace with a string pattern: the first occurrence only
ReplaceFirst(pieces, pattern, replacement) ==
    LET at == {i \in 1..Len(pieces) : pieces[i] = pattern}
    IN  IF at = {} THEN pieces
        ELSE [i \in 1..Len(pieces) |-> IF i = Min(at) THEN replacement ELSE pieces[i]]

P_SAFEGUARD ==
    "You have not interacted with the REPL environment or seen your prompt / context yet. Your next action should be to look through and figure out how to answer the prompt, so don't just provide a final answer yet.\n\n"
P_PREFIX == "The history before is your previous interactions with the REPL environment. "

P_NOTE == "\n\nNote: You have "
P_CONTEXTS == " contexts available (context_0 through context_"
P_HISTORIES == " prior conversation histories available (history_0 through history_"
P_NOTE_END == ")."
P_HISTORY_ONE == "\n\nNote: You have 1 prior conversation history available in the "

\* lines 251-254
ContextNotice(contextCount) ==
    <<P_NOTE, ToString(contextCount), P_CONTEXTS, ToString(contextCount - 1), P_NOTE_END>>

\* lines 259-260
HistoryNoticeOne == <<P_HISTORY_ONE, BT, "history", BT, " variable.">>

\* lines 262-265
HistoryNoticeMany(historyCount) ==
    <<P_NOTE, ToString(historyCount), P_HISTORIES, ToString(historyCount - 1), P_NOTE_END>>

\* lines 232-248: the guidance of the iteration, then the template; an empty
\* rootPrompt is falsy and selects the template without it
BasePrompt(opts) ==
    LET rootPrompt == IF opts.given THEN opts.rootPrompt ELSE NoString
        iteration == IF opts.given THEN OrDefault(opts.iteration, 0) ELSE 0
        base == IF rootPrompt.some /\ rootPrompt.v # ""
                THEN ReplaceFirst(USER_PROMPT_WITH_ROOT, P_PLACEHOLDER, rootPrompt.v)
                ELSE USER_PROMPT
    IN  IF iteration = 0 THEN <<P_SAFEGUARD>> \o base ELSE <<P_PREFIX>> \o base

\* the history notice appended before the context notice
buildUserPrompt_HistoryFirst(opts) ==
    LET contextCount == IF opts.given THEN OrDefault(opts.contextCount, 1) ELSE 1
        historyCount == IF opts.given THEN OrDefault(opts.historyCount, 0) ELSE 0
        p1 == BasePrompt(opts)
        p2 == IF historyCount > 0
              THEN IF historyCount = 1 THEN p1 \o HistoryNoticeOne
                   ELSE p1 \o HistoryNoticeMany(historyCount)
              ELSE p1
        p3 == IF contextCount > 1 THEN p2 \o ContextNotice(contextCount) ELSE p2
    IN  [role |-> "user", content |-> p3]

\* lines 224-270
buildUserPrompt(opts) ==
    LET contextCount == IF opts.given THEN OrDefault(opts.contextCount, 1) ELSE 1
        historyCount == IF opts.given THEN OrDefault(opts.historyCount, 0) ELSE 0
        p1 == BasePrompt(opts)
        p2 == IF contextCount > 1 THEN p1 \o ContextNotice(contextCount) ELSE p1
        p3 == IF historyCount > 0
              THEN IF historyCount = 1 THEN p2 \o HistoryNoticeOne
                   ELSE p2 \o HistoryNoticeMany(historyCount)
              ELSE p2
    IN  [role |-> "user", content |-> p3]

(***************************************************************************)
(* SpecUserPrompt: every PromptOptions with counts up to MaxCount, each    *)
(* field given or left out, and the call without options.                  *)
(***************************************************************************)
RootPrompts == {NoString, Some(""), Some("Summarize the report")}
Iterations == {NoNumber} \cup {Some(n) : n \in 0..2}
ContextCounts == {NoNumber} \cup {Some(n) : n \in 1..MaxCount}
HistoryCounts == {NoNumber} \cup {Some(n) : n \in 0..MaxCount}

Options(rootPrompt, iteration, contextCount, historyCount) ==
    [given |-> TRUE, rootPrompt |-> rootPrompt, iteration |-> iteration,
     contextCount |-> contextCount, historyCount |-> historyCount]

PromptOptions ==
    {NoOptions} \cup
    {Options(r, i, c, h) :
        r \in RootPrompts, i \in Iterations, c \in ContextCounts, h \in HistoryCounts}

InitUserPrompt ==
    /\ pc = "start"
    /\ options \in PromptOptions
    /\ userMessage = NoMessage
    /\ context = NullV
    /\ systemPrompt = ""
    /\ queryMetadata = NoMetadata
    /\ messages = <<>>
    /\ IdleAnswer
    /\ IdleBlocks

\* the orchestrator builds the user message of the next turn
BuildUserPrompt ==
    /\ pc = "start"
    /\ userMessage' = buildUserPrompt(options)
    /\ pc' = "done"
    /\ UNCHANGED <<answerVars, blockVars, context, systemPrompt, queryMetadata,
                   messages, options>>

NextUserPrompt == BuildUserPrompt

SpecUserPrompt == InitUserPrompt /\ [][NextUserPrompt]_vars

\* the counts in effect: those given, or the defaults 1 and 0
ContextCountOf(opts) == IF opts.given /\ opts.contextCount.some THEN opts.contextCount.v ELSE 1
HistoryCountOf(opts) == IF opts.given /\ opts.historyCount.some THEN opts.historyCount.v ELSE 0

\* where in a content the given pieces stand in a row
PlacesOf(content, pieces) ==
    {i \in 1..(Len(content) - Len(pieces) + 1) :
        SubSeq(content, i, i + Len(pieces) - 1) = pieces}

HasPiece(content, piece) == \E i \in 1..Len(content) : content[i] = piece

\* C9: the context notice, naming context_0 through context_{n-1}, is in the user
\* message iff contextCount > 1; a history notice is in it iff historyCount > 0, in
\* the singular wording iff historyCount = 1 and in the plural wording, naming
\* history_0 through history_{n-1}, iff historyCount > 1; the context notice comes
\* before the history notice, and both come after the base template text.
C9_Notices ==
    pc = "done" =>
        LET content == userMessage.content
            cc == ContextCountOf(options)
            hc == HistoryCountOf(options)
            base == BasePrompt(options)
            ctxAt == PlacesOf(content, <<"\n\nNote: You have ", ToString(cc),
                                         " contexts available (context_0 through context_",
                                         ToString(cc - 1), ").">>)
            oneAt == PlacesOf(content,
                              <<"\n\nNote: You have 1 prior conversation history available in the ",
                                BT, "history", BT, " variable.">>)
            manyAt == PlacesOf(content,
                               <<"\n\nNote: You have ", ToString(hc),
                                 " prior conversation histories available (history_0 through history_",
                                 ToString(hc - 1), ").">>)
        IN  /\ userMessage.role = "user"
            /\ SubSeq(content, 1, Len(base)) = base
            /\ (cc > 1 <=> ctxAt # {})
            /\ (cc > 1 <=> HasPiece(content, P_CONTEXTS))
            /\ (hc = 1 <=> oneAt # {})
            /\ (hc = 1 <=> HasPiece(content, P_HISTORY_ONE))
            /\ (hc > 1 <=> manyAt # {})
            /\ (hc > 1 <=> HasPiece(content, P_HISTORIES))
            /\ \A i \in ctxAt \cup oneAt \cup manyAt : i > Len(base)
            /\ \A i \in ctxAt : \A j \in oneAt \cup manyAt : i < j
            /\ Len(content) = Len(base) + (IF cc > 1 THEN 5 ELSE 0)
                                        + (IF hc > 0 THEN 5 ELSE 0)

\* contextCount 3 and historyCount 1: both notices, the context notice first
C9_Witness ==
    /\ pc = "done"
    /\ options.given
    /\ options.contextCount = Some(3)
    /\ options.historyCount = Some(1)
    /\ LET content == userMessage.content
           n == Len(content)
       IN  /\ SubSeq(content, n - 9, n - 5) = ContextNotice(3)
           /\ SubSeq(content, n - 4, n) = HistoryNoticeOne

----------------------------------------------------------------------------
(***************************************************************************)
(* SpecVarName: responses with one variable marker whose argument has, on  *)
(* each side independently, no quote, a double quote or a single quote,    *)
(* with and without blanks around it.                                      *)
(***************************************************************************)
QuoteMarks == {<<>>, <<DQ>>, <<SQ>>}

VarNameTexts ==
    { pre \o L_FINAL_VAR \o sp1 \o q1 \o name \o q2 \o sp2 \o <<")">> \o post :
        pre \in {<<>>, L_FINAL_DQ \o <<"a">> \o <<"\"", ")">>},
        sp1 \in {<<>>, <<" ">>},
        q1 \in QuoteMarks,
        name \in {T_x, T_y},
        q2 \in QuoteMarks,
        sp2 \in {<<>>, <<" ">>},
        post \in {<<>>, L_FINAL \o T_42 \o <<")">>} }

VarNameEnvironments ==
    { Env(T_x :> StrV(T_hi)),
      Env(T_x :> StrV(T_hi) @@ T_y :> NumV(123)),
      Env(T_x :> StrV(T_hi) @@ (<<DQ>> \o T_x) :> StrV(T_value)) }

InitVarName ==
    /\ pc = "start"
    /\ text \in VarNameTexts
    /\ environment \in VarNameEnvironments
    /\ answer = Undefined
    /\ marker = NoMarker
    /\ IdleBlocks
    /\ IdlePrompts

SpecVarName == InitVarName /\ [][NextAnswer]_vars

\* C11: the name looked up for a variable marker is the argument without the
\* whitespace around it and, only when a matching pair of quotes wraps it (both
\* double or both single), without that pair: x, "x" and 'x' resolve as x, and an
\* argument with a quote on one side only or with two different quotes is looked
\* up as it stands, not as x.
C11_Original ==
    (pc = "done" /\ VarMarkers(text) # {}) =>
        LET arg == Trim(FirstMarker(VarMarkers(text)).group)
            paired == /\ Len(arg) >= 2
                      /\ IsQuote(arg[1])
                      /\ arg[Len(arg)] = arg[1]
            name == IF paired THEN SubSeq(arg, 2, Len(arg) - 1) ELSE arg
        IN  answer = IF name \in environment.keys
                     THEN ValueToString(environment.get[name])
                     ELSE Undefined

----------------------------------------------------------------------------
(***************************************************************************)
(* SpecAnyContext: the contexts of SpecMetadata and contexts that are no   *)
(* text, list or keyed map: numbers, booleans and null.                    *)
(***************************************************************************)
MalformedContexts ==
    {NumV(0), NumV(5), NumV(-1), BoolV(TRUE), BoolV(FALSE), NullV}

InitAnyContext ==
    /\ pc = "start"
    /\ context \in Contexts \cup MalformedContexts
    /\ systemPrompt \in SystemPrompts
    /\ queryMetadata = NoMetadata
    /\ messages = <<>>
    /\ options = NoOptions
    /\ userMessage = NoMessage
    /\ IdleAnswer
    /\ IdleBlocks

SpecAnyContext == InitAnyContext /\ [][NextMetadata]_vars

\* C12: a context that is no text, list or keyed map (a number, a boolean, null)
\* makes createQueryMetadata fail at once; no metadata is ever returned for it.
C12_Original ==
    (pc # "start" /\ context \in MalformedContexts) => queryMetadata.threw


====
